---- MODULE Spec2Model ----
(***************************************************************************)
(* A model of fourierbasis/fourierbasis.py: the FourierBasis module, its   *)
(* constructor (the coefficient matrix) and its forward pass               *)
(* cos(x @ coeff).                                                         *)
(*                                                                         *)
(* Numbers.  A float is a record [k, n, p].  k = "fin" stands for the      *)
(* finite value n + p * pi (n, p integers), k = "inf" / "ninf" / "nan" for *)
(* the IEEE-754 non-finite values and k = "irr" for a finite value that is *)
(* not of the form n + p * pi (the cosine of a non-multiple of pi, a       *)
(* product of two multiples of pi).  The program multiplies small integers *)
(* by math.pi and takes cosines of the sums; for the magnitudes of this    *)
(* model the float32 results of cos(m * pi) round to exactly 1.0 or -1.0,  *)
(* so the symbolic values agree with what torch computes.                  *)
(*                                                                         *)
(* Tensors.  A tensor is a record [shape, data]: shape is the tuple        *)
(* torch reports, data the rows of a two-dimensional tensor.               *)
(*                                                                         *)
(* Python's assert statement is modelled as executed (the interpreter's    *)
(* default mode).                                                          *)
(***************************************************************************)
EXTENDS Integers, Sequences, FiniteSets, TLC

VARIABLES pc, features, order, coeff, built, err, calls, ctr

\* built is a history variable: the tensor the constructor assigned to
\* self.coeff, recorded when it ran and written by nothing else
vars == <<pc, features, order, coeff, built, err, calls, ctr>>

(* ------------------------------- bounds -------------------------------- *)
MaxFeatures == 2
MaxOrder == 3
MaxBatch == 1
NumCallers == 2

\* constructor arguments tried: valid ones and the invalid ones next to them
ArgFeatures == (0 - 1) .. MaxFeatures
ArgOrder == (0 - 2) .. MaxOrder
Callers == 1 .. NumCallers

(* ------------------------------- floats -------------------------------- *)
Fin(a) == [k |-> "fin", n |-> a, p |-> 0]
Inf == [k |-> "inf", n |-> 0, p |-> 0]
NInf == [k |-> "ninf", n |-> 0, p |-> 0]
NaN == [k |-> "nan", n |-> 0, p |-> 0]
Irr == [k |-> "irr", n |-> 0, p |-> 0]
MathPi == [k |-> "fin", n |-> 0, p |-> 1]

\* float32 conversion of a small Python int (exact)
Float32(i) == Fin(i)

IsFinite(a) == a.k \in {"fin", "irr"}
IsZero(a) == a.k = "fin" /\ a.n = 0 /\ a.p = 0

\* sign of a non-zero value; n + p * pi is compared through 314159 / 100000
Sign(a) ==
    CASE a.k = "inf" -> 1
      [] a.k = "ninf" -> 0 - 1
      [] a.k = "fin" -> IF 100000 * a.n + 314159 * a.p < 0 THEN 0 - 1 ELSE 1
      [] OTHER -> 1

MulInfZeroIsZero(a, b) ==
    IF a.k = "nan" \/ b.k = "nan" THEN NaN
    ELSE IF a.k = "fin" /\ b.k = "fin"
         THEN IF a.p # 0 /\ b.p # 0 THEN Irr
              ELSE [k |-> "fin", n |-> a.n * b.n, p |-> a.n * b.p + a.p * b.n]
    ELSE IF IsFinite(a) /\ IsFinite(b) THEN Irr
    ELSE IF IsZero(a) \/ IsZero(b) THEN Fin(0)
    ELSE IF Sign(a) * Sign(b) > 0 THEN Inf ELSE NInf

\* IEEE-754 multiplication: nan absorbs, inf * 0 = nan
Mul(a, b) ==
    IF a.k = "nan" \/ b.k = "nan" THEN NaN
    ELSE IF a.k = "fin" /\ b.k = "fin"
         THEN IF a.p # 0 /\ b.p # 0 THEN Irr
              ELSE [k |-> "fin", n |-> a.n * b.n, p |-> a.n * b.p + a.p * b.n]
    ELSE IF IsFinite(a) /\ IsFinite(b) THEN Irr
    ELSE IF IsZero(a) \/ IsZero(b) THEN NaN
    ELSE IF Sign(a) * Sign(b) > 0 THEN Inf ELSE NInf

\* IEEE-754 addition: nan absorbs, inf + (-inf) = nan
Add(a, b) ==
    IF a.k = "nan" \/ b.k = "nan" THEN NaN
    ELSE IF a.k = "fin" /\ b.k = "fin"
         THEN [k |-> "fin", n |-> a.n + b.n, p |-> a.p + b.p]
    ELSE IF IsFinite(a) /\ IsFinite(b) THEN Irr
    ELSE IF IsFinite(a) THEN b
    ELSE IF IsFinite(b) THEN a
    ELSE IF a.k = b.k THEN a ELSE NaN

\* cosine: cos(m * pi) = (-1)^m, cos(+-inf) = cos(nan) = nan
Cos(a) ==
    IF a.k \in {"nan", "inf", "ninf"} THEN NaN
    ELSE IF a.k = "fin" /\ a.n = 0
         THEN IF a.p % 2 = 0 THEN Fin(1) ELSE Fin(0 - 1)
    ELSE Irr

(* ------------------------------- tensors ------------------------------- *)
NoTensor == [shape |-> <<>>, data |-> <<>>]

\* range(n): 0 .. n-1, empty for n <= 0
Range(n) == [i \in 1 .. n |-> i - 1]

RECURSIVE FlatCat(_)
FlatCat(seqs) == IF seqs = <<>> THEN <<>> ELSE Head(seqs) \o FlatCat(Tail(seqs))

ExtendIndexOffByOne(result, pool) ==
    FlatCat([i \in 1 .. Len(result) |->
                [j \in 1 .. Len(pool) |->
                    Append(result[i], pool[IF j = 1 THEN 1 ELSE j - 1])]])

ExtendFirstFastest(result, pool) ==
    FlatCat([i \in 1 .. Len(result) |->
                [j \in 1 .. Len(pool) |-> <<pool[j]>> \o result[i]]])

\* one pool of itertools.product: [x + [y] for x in result for y in pool]
Extend(result, pool) ==
    FlatCat([i \in 1 .. Len(result) |->
                [j \in 1 .. Len(pool) |-> Append(result[i], pool[j])]])

\* itertools.product(pool, repeat=r) for r >= 0, as a list
RECURSIVE Product(_, _)
Product(pool, r) ==
    IF r = 0 THEN << <<>> >> ELSE Extend(Product(pool, r - 1), pool)

\* torch.tensor(list of tuples, dtype=float32): an empty list is the
\* one-dimensional tensor of shape (0,)
TorchTensor(lst) ==
    IF Len(lst) = 0 THEN [shape |-> <<0>>, data |-> <<>>]
    ELSE [shape |-> <<Len(lst), Len(lst[1])>>,
          data |-> [i \in 1 .. Len(lst) |->
                       [k \in 1 .. Len(lst[1]) |-> Float32(lst[i][k])]]]

\* Tensor.T: swaps the two dimensions; a one-dimensional tensor is returned
\* as it is
Transpose(t) ==
    IF Len(t.shape) = 2
    THEN [shape |-> <<t.shape[2], t.shape[1]>>,
          data |-> [k \in 1 .. t.shape[2] |->
                       [i \in 1 .. t.shape[1] |-> t.data[i][k]]]]
    ELSE t

\* tensor * scalar, elementwise
Scale(t, s) ==
    IF Len(t.shape) = 2
    THEN [shape |-> t.shape,
          data |-> [i \in 1 .. t.shape[1] |->
                       [j \in 1 .. t.shape[2] |-> Mul(t.data[i][j], s)]]]
    ELSE t

\* Python int ** non-negative int
RECURSIVE PyPow(_, _)
PyPow(b, e) == IF e = 0 THEN 1 ELSE b * PyPow(b, e - 1)

RECURSIVE DotUpTo(_, _, _, _)
DotUpTo(row, w, j, m) ==
    IF m = 0 THEN Fin(0)
    ELSE Add(DotUpTo(row, w, j, m - 1), Mul(row[m], w.data[m][j]))

MatMulNoShapeCheck(x, w) ==
    LET m == IF x.shape[2] < w.shape[1] THEN x.shape[2] ELSE w.shape[1]
    IN [ok |-> TRUE,
        val |-> [shape |-> <<x.shape[1], w.shape[2]>>,
                 data |-> [i \in 1 .. x.shape[1] |->
                              [j \in 1 .. w.shape[2] |->
                                  DotUpTo(x.data[i], w, j, m)]]]]

\* x @ w for two-dimensional tensors: out[i, j] = sum_k x[i, k] * w[k, j];
\* the inner dimensions must agree
MatMul(x, w) ==
    IF x.shape[2] # w.shape[1]
    THEN [ok |-> FALSE, val |-> NoTensor]
    ELSE [ok |-> TRUE,
          val |-> [shape |-> <<x.shape[1], w.shape[2]>>,
                   data |-> [i \in 1 .. x.shape[1] |->
                                [j \in 1 .. w.shape[2] |->
                                    DotUpTo(x.data[i], w, j, x.shape[2])]]]]

\* torch.cos, elementwise
TorchCos(t) ==
    [shape |-> t.shape,
     data |-> [i \in 1 .. t.shape[1] |->
                  [j \in 1 .. t.shape[2] |-> Cos(t.data[i][j])]]]

(* ----------------------------- FourierBasis ---------------------------- *)
BuildCoeffOrderExclusive(f, o) ==
    Scale(Transpose(TorchTensor(Product(Range(o), f))), MathPi)

BuildCoeffFirstFastest(f, o) ==
    LET RECURSIVE P(_)
        P(r) == IF r = 0 THEN << <<>> >>
                ELSE ExtendFirstFastest(P(r - 1), Range(o + 1))
    IN Scale(Transpose(TorchTensor(P(f))), MathPi)

\* the tensor assigned to self.coeff
BuildCoeff(f, o) ==
    Scale(Transpose(TorchTensor(Product(Range(o + 1), f))), MathPi)

\* FourierBasis.__init__: the outcome of the constructor
FourierBasisInit(f, o) ==
    IF f < 0
    THEN [ok |-> FALSE, coeff |-> NoTensor, err |-> "ValueError"]
    ELSE LET c == BuildCoeff(f, o)
         IN IF c.shape = <<f, PyPow(o + 1, f)>>
            THEN [ok |-> TRUE, coeff |-> c, err |-> "none"]
            ELSE [ok |-> FALSE, coeff |-> NoTensor, err |-> "AssertionError"]

IdleCall == [pc |-> "idle", x |-> NoTensor, tmp |-> NoTensor,
             out |-> NoTensor, err |-> "none"]

ForwardNoCos(w, x) ==
    LET mm == MatMul(x, w)
    IN IF mm.ok
       THEN [pc |-> "returned", x |-> x, tmp |-> NoTensor,
             out |-> mm.val, err |-> "none"]
       ELSE [pc |-> "raised", x |-> x, tmp |-> NoTensor,
             out |-> NoTensor, err |-> "RuntimeError"]

\* FourierBasis.forward run to completion on coefficient matrix w
ForwardResult(w, x) ==
    LET mm == MatMul(x, w)
    IN IF mm.ok
       THEN [pc |-> "returned", x |-> x, tmp |-> NoTensor,
             out |-> TorchCos(mm.val), err |-> "none"]
       ELSE [pc |-> "raised", x |-> x, tmp |-> NoTensor,
             out |-> NoTensor, err |-> "RuntimeError"]

(* ------------------------------- inputs -------------------------------- *)
XVals == {Fin(0), Fin(1), Inf, NaN}

Tensors2D(b, m, vals) ==
    {[shape |-> <<b, m>>, data |-> d] : d \in [1 .. b -> [1 .. m -> vals]]}

\* the batches handed to forward by a single caller
Inputs ==
    UNION {Tensors2D(b, m, XVals) : b \in 0 .. MaxBatch, m \in 0 .. MaxFeatures}

\* the batches handed to forward by concurrent callers: one row of the right
\* width (of ones, or of -inf), or one row that is one too wide
ConcInputs(f) ==
    Tensors2D(1, f, {Fin(1)}) \cup Tensors2D(1, f, {NInf})
       \cup Tensors2D(1, f + 1, {Fin(1)})

(* ------------------------------- actions ------------------------------- *)
Init ==
    /\ pc = "new"
    /\ features = 0
    /\ order = 0
    /\ coeff = NoTensor
    /\ built = NoTensor
    /\ err = "none"
    /\ calls = [c \in Callers |-> IdleCall]
    /\ ctr = [pc |-> "off", idx |-> <<>>, pos |-> 0, emitted |-> <<>>]

\* FourierBasis(f, o)
Construct ==
    /\ pc = "new"
    /\ \E f \in ArgFeatures, o \in ArgOrder :
          LET r == FourierBasisInit(f, o)
          IN /\ pc' = IF r.ok THEN "ready" ELSE "failed"
             /\ features' = f
             /\ order' = o
             /\ coeff' = r.coeff
             /\ built' = r.coeff
             /\ err' = r.err
    /\ UNCHANGED <<calls, ctr>>

\* one caller: model(x), from call to return
Forward ==
    /\ pc = "ready"
    /\ calls[1].pc = "idle"
    /\ \E x \in Inputs :
          calls' = [calls EXCEPT ![1] = ForwardResult(coeff, x)]
    /\ UNCHANGED <<pc, features, order, coeff, built, err, ctr>>

\* the caller is done with the result of its call
Return ==
    /\ pc = "ready"
    /\ calls[1].pc \in {"returned", "raised"}
    /\ calls' = [calls EXCEPT ![1] = IdleCall]
    /\ UNCHANGED <<pc, features, order, coeff, built, err, ctr>>

Next == Construct \/ Forward \/ Return

Spec == Init /\ [][Next]_vars

(* -------------------------- concurrent callers ------------------------- *)
\* caller c enters forward with its own input
Call(c) ==
    /\ pc = "ready"
    /\ calls[c].pc \in {"idle", "returned", "raised"}
    /\ \E x \in ConcInputs(features) :
          calls' = [calls EXCEPT ![c] =
                       [pc |-> "matmul", x |-> x, tmp |-> NoTensor,
                        out |-> NoTensor, err |-> "none"]]
    /\ UNCHANGED <<pc, features, order, coeff, built, err, ctr>>

MatMulStepInPlace(c) ==
    /\ pc = "ready"
    /\ calls[c].pc = "matmul"
    /\ LET mm == MatMul(calls[c].x, coeff)
       IN calls' = [calls EXCEPT ![c] =
                       IF mm.ok
                       THEN [@ EXCEPT !.pc = "cos", !.tmp = mm.val]
                       ELSE [@ EXCEPT !.pc = "raised", !.err = "RuntimeError"]]
    /\ coeff' = TorchCos(coeff)
    /\ UNCHANGED <<pc, features, order, built, err, ctr>>

\* caller c evaluates x @ self.coeff: reads the shared matrix, keeps the
\* product in a buffer of its own, or raises on a shape mismatch
MatMulStep(c) ==
    /\ pc = "ready"
    /\ calls[c].pc = "matmul"
    /\ LET mm == MatMul(calls[c].x, coeff)
       IN calls' = [calls EXCEPT ![c] =
                       IF mm.ok
                       THEN [@ EXCEPT !.pc = "cos", !.tmp = mm.val]
                       ELSE [@ EXCEPT !.pc = "raised", !.err = "RuntimeError"]]
    /\ UNCHANGED <<pc, features, order, coeff, built, err, ctr>>

\* caller c evaluates torch.cos on its product and returns
CosStep(c) ==
    /\ pc = "ready"
    /\ calls[c].pc = "cos"
    /\ calls' = [calls EXCEPT ![c] =
                    [@ EXCEPT !.pc = "returned", !.tmp = NoTensor,
                              !.out = TorchCos(calls[c].tmp)]]
    /\ UNCHANGED <<pc, features, order, coeff, built, err, ctr>>

ConcNext == Construct \/ \E c \in Callers : Call(c) \/ MatMulStep(c) \/ CosStep(c)

SpecConcurrent == Init /\ [][ConcNext]_vars

(* ----------------------- explicit multi-index counter ------------------ *)
\* start from `features` zeros
CounterStart ==
    /\ pc = "ready" /\ features >= 1 /\ order >= 0
    /\ ctr.pc = "off"
    /\ ctr' = [pc |-> "emit", idx |-> [k \in 1 .. features |-> 0],
               pos |-> features, emitted |-> <<>>]
    /\ UNCHANGED <<pc, features, order, coeff, built, err, calls>>

\* emit the current array
CounterEmit ==
    /\ ctr.pc = "emit"
    /\ ctr' = [ctr EXCEPT !.pc = "inc", !.pos = features,
                          !.emitted = Append(@, ctr.idx)]
    /\ UNCHANGED <<pc, features, order, coeff, built, err, calls>>

\* increment the position the carry has reached (the last one at first)
CounterIncrement ==
    /\ ctr.pc = "inc"
    /\ ctr' = [ctr EXCEPT !.pc = "carry", !.idx[ctr.pos] = @ + 1]
    /\ UNCHANGED <<pc, features, order, coeff, built, err, calls>>

\* a position that exceeds `order` is reset and carries into the one before
\* it; the counter stops when the carry leaves the first position
CounterCarry ==
    /\ ctr.pc = "carry"
    /\ ctr' = IF ctr.idx[ctr.pos] > order
              THEN IF ctr.pos = 1
                   THEN [ctr EXCEPT !.pc = "stopped", !.idx[ctr.pos] = 0]
                   ELSE [ctr EXCEPT !.pc = "inc", !.idx[ctr.pos] = 0,
                                    !.pos = @ - 1]
              ELSE [ctr EXCEPT !.pc = "emit"]
    /\ UNCHANGED <<pc, features, order, coeff, built, err, calls>>

CounterRun == CounterStart \/ CounterEmit \/ CounterIncrement \/ CounterCarry

CounterNext == Construct \/ CounterStart \/ CounterEmit \/ CounterIncrement \/ CounterCarry

\* the counter is a sequential loop: once it can take a step it takes it
SpecCounter == Init /\ [][CounterNext]_vars /\ WF_vars(CounterRun)

(* ------------------------ properties: construction --------------------- *)
Valid == pc # "new" /\ features >= 1 /\ order >= 0

IsMatrix(t, r, c) ==
    /\ t.shape = <<r, c>>
    /\ Len(t.data) = r
    /\ \A i \in 1 .. r : Len(t.data[i]) = c

\* the call made by the single caller
TheCall == calls[1]
Called == pc = "ready" /\ TheCall.pc # "idle"

\* C1: for features >= 1 and order >= 0 the constructor succeeds (its shape
\* assertion does not fail) and the coefficient matrix has exactly `features`
\* rows and exactly (order+1)^features columns.
C1_ShapeInvariant ==
    Valid => /\ pc = "ready"
             /\ err = "none"
             /\ IsMatrix(coeff, features, PyPow(order + 1, features))

C1_Witness ==
    /\ pc = "ready" /\ features = 2 /\ order = 2
    /\ coeff.shape = <<2, 9>>

\* column j of the coefficient matrix as an integer multi-index (entry / pi)
MultiIndex(j) == [k \in 1 .. features |-> coeff.data[k][j].p]
PiMultiple(v) == v.k = "fin" /\ v.n = 0

\* C2: for valid (features, order) the columns, divided by pi, are exactly
\* the elements of {0..order}^features: every multi-index is a column, no
\* column lies outside the product, and no multi-index appears twice.
C2_EnumerationComplete ==
    Valid =>
      /\ pc = "ready"
      /\ Len(coeff.shape) = 2
      /\ LET N == coeff.shape[2]
         IN /\ \A k \in 1 .. features, j \in 1 .. N : PiMultiple(coeff.data[k][j])
            /\ {MultiIndex(j) : j \in 1 .. N} = [1 .. features -> 0 .. order]
            /\ Cardinality({MultiIndex(j) : j \in 1 .. N}) = N

C2_Witness ==
    /\ pc = "ready" /\ features = 2 /\ order = 2
    /\ \E j \in 1 .. coeff.shape[2] : MultiIndex(j) = <<2, 1>>

\* C3: the columns are in lexicographic order, row 0 varying slowest: the
\* integer component of column j (from 0), row k (from 0) is
\* (j div (order+1)^(features-1-k)) mod (order+1); features=2, order=1 gives
\* the columns (0,0),(0,1),(1,0),(1,1).
C3_LexicographicOrder ==
    Valid =>
      /\ pc = "ready"
      /\ IsMatrix(coeff, features, PyPow(order + 1, features))
      /\ \A j \in 0 .. PyPow(order + 1, features) - 1, k \in 0 .. features - 1 :
            coeff.data[k + 1][j + 1] =
               [k |-> "fin", n |-> 0,
                p |-> (j \div PyPow(order + 1, features - 1 - k)) % (order + 1)]
      /\ (features = 2 /\ order = 1) =>
            [j \in 1 .. 4 |-> MultiIndex(j)] =
               << <<0, 0>>, <<0, 1>>, <<1, 0>>, <<1, 1>> >>

C3_Witness ==
    /\ pc = "ready" /\ features = 2 /\ order = 1
    /\ MultiIndex(2) = <<0, 1>> /\ MultiIndex(3) = <<1, 0>>

\* C4: constructing with features < 1 (in particular features = 0) fails
\* with an error and yields no encoder, for every order.
C4_FeaturesBelowOneRejected ==
    (pc # "new" /\ features < 1) =>
       (pc = "failed" /\ err # "none" /\ coeff = NoTensor)

\* C5: constructing with order < 0 (in particular order = -1) fails with an
\* error and yields no encoder, for every value of features.
C5_NegativeOrderRejected ==
    (pc # "new" /\ order < 0) =>
       (pc = "failed" /\ err # "none" /\ coeff = NoTensor)

(* -------------------------- properties: forward ------------------------ *)
\* C6: forward on a two-dimensional input whose second dimension differs
\* from the configured `features` fails with an error: no output is
\* returned and the coefficient matrix is unchanged.
C6_ShapeMismatch ==
    (Called /\ TheCall.x.shape[2] # features) =>
       /\ TheCall.pc = "raised"
       /\ TheCall.err = "RuntimeError"
       /\ TheCall.out = NoTensor
       /\ coeff = built

C6_Witness ==
    /\ pc = "ready" /\ features = 2 /\ order = 1
    /\ TheCall.pc = "raised" /\ TheCall.x.shape = <<1, 1>>

\* the cosine of sum_k x[i,k] * matrix[k,j], worked out: nan when row i of
\* x holds a non-finite value (inf * 0 = nan, inf * c = inf, cos(inf) = nan),
\* and otherwise (-1)^(sum_k x[i,k] * index[k,j]) for integer x
ExpectedEntry(x, i, j) ==
    IF \E k \in 1 .. features : x.data[i][k].k # "fin" THEN NaN
    ELSE LET odd == {k \in 1 .. features :
                        (x.data[i][k].n * coeff.data[k][j].p) % 2 = 1}
         IN IF Cardinality(odd) % 2 = 0 THEN Fin(1) ELSE Fin(0 - 1)

\* C7: for a valid encoder and an input of shape (batch, features), batch = 0
\* included, forward returns a two-dimensional result with exactly `batch`
\* rows and (order+1)^features columns whose entry [i, j] is the cosine of
\* sum_k x[i,k] * matrix[k,j].
C7_OutputShapeAndValues ==
    (Called /\ features >= 1 /\ order >= 0 /\ TheCall.x.shape[2] = features) =>
       /\ TheCall.pc = "returned"
       /\ IsMatrix(TheCall.out, TheCall.x.shape[1], PyPow(order + 1, features))
       /\ \A i \in 1 .. TheCall.x.shape[1], j \in 1 .. PyPow(order + 1, features) :
             TheCall.out.data[i][j] = ExpectedEntry(TheCall.x, i, j)

C7_Witness ==
    /\ pc = "ready" /\ features = 2 /\ order = 2
    /\ TheCall.pc = "returned"
    /\ TheCall.x = [shape |-> <<1, 2>>, data |-> << <<Fin(1), Fin(1)>> >>]
    /\ TheCall.out.shape = <<1, 9>>
    /\ TheCall.out.data[1][2] = Fin(0 - 1)
    /\ TheCall.out.data[1][5] = Fin(1)

OneByOne(v) == [shape |-> <<1, 1>>, data |-> << <<v>> >>]

\* C9 as claimed: with features=1 and order=0 the coefficient matrix is
\* [[0.0]] and forward([[v]]) returns [[1.0]] for any v, the non-finite
\* values (infinity, nan) included.
C9_ConstantOneForAnyInput ==
    (Called /\ features = 1 /\ order = 0 /\ TheCall.x.shape = <<1, 1>>) =>
       /\ coeff = OneByOne(Fin(0))
       /\ TheCall.pc = "returned"
       /\ TheCall.out = OneByOne(Fin(1))

\* C9 amended: with features=1 and order=0 the coefficient matrix is
\* [[0.0]]; forward([[v]]) returns [[1.0]] for every finite v and [[nan]]
\* for v = +-infinity or nan (v * 0.0 is nan there, and cos(nan) = nan).
C9_ConstantOneForFiniteInput ==
    (Called /\ features = 1 /\ order = 0 /\ TheCall.x.shape = <<1, 1>>) =>
       /\ coeff = OneByOne(Fin(0))
       /\ TheCall.pc = "returned"
       /\ TheCall.out =
             IF TheCall.x.data[1][1].k = "fin" THEN OneByOne(Fin(1))
             ELSE OneByOne(NaN)

C9_Witness ==
    /\ pc = "ready" /\ features = 1 /\ order = 0
    /\ TheCall.x = OneByOne(Inf)
    /\ TheCall.out = OneByOne(NaN)

(* ------------------------ properties: concurrency ---------------------- *)
\* C8: after construction the coefficient matrix never changes: in every
\* state reached by any interleaving of forward calls of concurrent callers,
\* successful or failing, the matrix equals the one the constructor built,
\* and each finished call's result is the one the call gives when run alone.
C8_MatrixImmutable ==
    pc = "ready" =>
       /\ coeff = built
       /\ \A c \in Callers :
             calls[c].pc \in {"returned", "raised"} =>
                calls[c] = ForwardResult(built, calls[c].x)

C8_Witness ==
    /\ pc = "ready" /\ features = 2 /\ order = 1
    /\ calls[1].pc = "returned"
    /\ calls[2].pc = "raised"
    /\ \E i \in 1 .. 4 : calls[1].out.data[1][i] = Fin(0 - 1)

(* ------------------------- properties: counter ------------------------- *)
CounterSafe ==
    ctr.pc # "off" =>
       /\ Len(ctr.emitted) <= PyPow(order + 1, features)
       /\ \A j \in 1 .. Len(ctr.emitted) : ctr.emitted[j] = MultiIndex(j)
       /\ ctr.pc = "stopped" => Len(ctr.emitted) = PyPow(order + 1, features)

\* C10: the explicit multi-index counter terminates after emitting exactly
\* (order+1)^features multi-indices, and the sequence it emits is, position
\* by position, the column order of the constructor's matrix, for every
\* features >= 1 and order >= 0.
C10_CounterMatchesProduct ==
    /\ [](CounterSafe)
    /\ (ctr.pc # "off") ~> (ctr.pc = "stopped")

C10_Witness ==
    /\ ctr.pc = "stopped" /\ features = 2 /\ order = 2
    /\ Len(ctr.emitted) = 9
    /\ ctr.emitted[4] = <<1, 0>>

====
